---- MODULE Spec2Model ----
(***************************************************************************)
(* tokio-serde-cbor: CBOR framing codec (src/src/lib.rs).                  *)
(*                                                                         *)
(* The model holds one Encoder (sd, packed) writing frames to the buffer   *)
(* dst, one Decoder reading frames from the buffer src, and a loop-back    *)
(* transport that moves bytes from the front of dst to the back of src.    *)
(* Items are the test type HashMap<String, usize>.  The CBOR serializer    *)
(* and deserializer of serde_cbor are modelled at the byte level for the   *)
(* byte values of the alphabet Bytes: the deserializer pulls its bytes     *)
(* through Counted::read, one read_exact at a time.                        *)
(***************************************************************************)
EXTENDS Integers, Sequences, FiniteSets, TLC

\* ---------------------------------------------------------------- bounds
\* most bytes the two buffers hold together
MaxBytes == 7
\* number of bytes that do not come from the encoder
MaxJunk == 1
\* longest source the counting reader is run over on its own
MaxSlice == 3
\* most bytes one read call of that run asks for
MaxAsk == 2

\* ---------------------------------------------------------- byte values
\* byte values the caller can put into src besides encoder output:
\* 0x18 (uint, one-byte argument), 0x61 (text of length 1, also the letter
\* "a"), 0xf7 (simple value "undefined"); the encoder adds 0x01 (uint 1),
\* 0xa0 / 0xa1 (map of 0 / 1 entries) and 0xd9 (tag, two-byte argument)
Bytes == {24, 97, 247}

\* the self-describe tag 55799 as serde_cbor writes it: d9 d9 f7
SelfDescribe == <<217, 217, 247>>

Min(a, b) == IF a < b THEN a ELSE b

SdModes == {"Always", "Once", "Never"}

\* the key "a"
KeyA == <<97>>

\* stands for a value whose Serialize impl returns an error
Unser == -1

\* Items handed to encode, as the sequence of (key, value) entries in
\* iteration order.  The last one fails while its value is serialized.
EncItems ==
  { << >>, << <<KeyA, 1>> >>, << <<KeyA, 24>> >>, << <<KeyA, Unser>> >> }

\* the HashMap an entry sequence denotes: a set of (key, value) pairs,
\* a later entry of the same key replacing an earlier one
Put(m, k, v) == {p \in m : p[1] # k} \cup {<<k, v>>}

RECURSIVE ToMap(_)
ToMap(item) ==
  IF item = << >> THEN {}
  ELSE LET n == Len(item)
       IN Put(ToMap(SubSeq(item, 1, n - 1)), item[n][1], item[n][2])

\* ------------------------------------------------------------ serializer
\* Serializer::new(writer) / Serializer::packed(writer): packed changes the
\* encoding of struct fields only, a HashMap is written the same way
SerializerNew(p) == [packed |-> p]

\* faulty variant: the writer starts the buffer afresh
BytesWriterWriteOver(buf, bytes) == bytes

\* BytesWriter::write: extend the buffer by the bytes, report all written
BytesWriterWrite(buf, bytes) == buf \o bytes

\* header of major type mt with argument n (n < 256 in this model)
WriteHeader(mt, n) ==
  IF n < 24 THEN <<mt * 32 + n>> ELSE <<mt * 32 + 24, n>>

\* a text string: header, then the bytes
SerializeStr(k) == WriteHeader(3, Len(k)) \o k

\* item.serialize(&mut serializer) for a map: the header with the entry
\* count, then key and value of each entry; the first value that fails
\* ends the call, what was written so far stays written
RECURSIVE SerializeEntries(_, _)
SerializeEntries(item, i) ==
  IF i > Len(item) THEN [ok |-> TRUE, bytes |-> << >>]
  ELSE IF item[i][2] = Unser
       THEN [ok |-> FALSE, bytes |-> SerializeStr(item[i][1])]
       ELSE LET rest == SerializeEntries(item, i + 1)
            IN [ok |-> rest.ok,
                bytes |-> SerializeStr(item[i][1])
                          \o WriteHeader(0, item[i][2]) \o rest.bytes]

Serialize(item, serializer) ==
  LET e == SerializeEntries(item, 1)
  IN [ok |-> e.ok, bytes |-> WriteHeader(5, Len(item)) \o e.bytes]

\* ---------------------------------------------------------------- reader
\* faulty variant: read reports the length asked for; what the slice did not have
\* stays as the zero bytes the caller's buffer held
CountedReadFull(r, n) ==
  LET size == Min(n, Len(r.slice))
  IN [got |-> SubSeq(r.slice, 1, size) \o [i \in 1..(n - size) |-> 0],
      r |-> [slice |-> SubSeq(r.slice, size + 1, Len(r.slice)),
             pos |-> r.pos + n]]

\* faulty variant: the size read is not added to pos
CountedReadNoCount(r, n) ==
  LET size == Min(n, Len(r.slice))
  IN [got |-> SubSeq(r.slice, 1, size),
      r |-> [slice |-> SubSeq(r.slice, size + 1, Len(r.slice)),
             pos |-> r.pos]]

\* faulty variant: the length asked for is added to pos, whatever was read
CountedReadAsked(r, n) ==
  LET size == Min(n, Len(r.slice))
  IN [got |-> SubSeq(r.slice, 1, size),
      r |-> [slice |-> SubSeq(r.slice, size + 1, Len(r.slice)),
             pos |-> r.pos + n]]

\* <&[u8] as Read>::read: copy min(n, len) bytes and advance the slice;
\* Counted::read adds the size to pos and passes the result on
CountedRead(r, n) ==
  LET size == Min(n, Len(r.slice))
  IN [got |-> SubSeq(r.slice, 1, size),
      r |-> [slice |-> SubSeq(r.slice, size + 1, Len(r.slice)),
             pos |-> r.pos + size]]

\* faulty variant: the length asked for is counted when the read fails
CountedReadErrCounts(r, n, e) ==
  [tag |-> "Err", err |-> e, r |-> [slice |-> r.slice, pos |-> r.pos + n]]

\* Counted::read when self.r.read(buf) fails with e: the arm e => e returns
\* the error as it is, pos is not touched
CountedReadErr(r, n, e) == [tag |-> "Err", err |-> e, r |-> r]

\* Read::read_exact over Counted: read until n bytes are there; a read of
\* zero bytes before that is ErrorKind::UnexpectedEof
ReadExact(r, n) ==
  LET a == CountedRead(r, n)
  IN [ok |-> Len(a.got) = n, got |-> a.got, r |-> a.r]

\* deserialization results
DeOk(v, r) == [tag |-> "Ok", val |-> v, err |-> "None", r |-> r]
DeErr(e, r) == [tag |-> "Err", val |-> {}, err |-> e, r |-> r]

\* CborError::Io with kind UnexpectedEof
ErrEof == "Io(UnexpectedEof)"

RECURSIVE BigEndian(_)
BigEndian(bs) ==
  IF bs = << >> THEN 0
  ELSE BigEndian(SubSeq(bs, 1, Len(bs) - 1)) * 256 + bs[Len(bs)]

Pow2(k) == CASE k = 0 -> 1 [] k = 1 -> 2 [] k = 2 -> 4 [] OTHER -> 8

\* the argument of a header byte: the low five bits below 24, else 1, 2, 4
\* or 8 bytes that follow; 28..30 are reserved.  (31, indefinite length
\* or break, is no byte of the alphabet and is rejected here as well.)
ReadArg(r, info) ==
  IF info < 24 THEN DeOk(info, r)
  ELSE IF info > 27 THEN DeErr("Syntax", r)
  ELSE LET a == ReadExact(r, Pow2(info - 24))
       IN IF a.ok THEN DeOk(BigEndian(a.got), a.r) ELSE DeErr(ErrEof, a.r)

\* str::from_utf8 on one- and two-byte sequences
RECURSIVE Utf8Valid(_)
Utf8Valid(bs) ==
  IF bs = << >> THEN TRUE
  ELSE IF bs[1] < 128 THEN Utf8Valid(Tail(bs))
  ELSE IF bs[1] >= 194 /\ bs[1] <= 223
       THEN /\ Len(bs) >= 2
            /\ bs[2] >= 128 /\ bs[2] <= 191
            /\ Utf8Valid(Tail(Tail(bs)))
  ELSE FALSE

\* Deserializer::parse_value driven by the visitor of the expected type
\* ("map" for HashMap<String, usize>, "str" for its keys, "uint" for its
\* values): read the header byte and its argument, skip a tag, read the
\* payload of a string, then hand the value to the visitor, which rejects
\* every type but its own.
RECURSIVE ParseValue(_, _), ParseEntries(_, _, _)
ParseValue(r, expect) ==
  LET h == ReadExact(r, 1)
  IN IF ~h.ok THEN DeErr(ErrEof, h.r)
     ELSE LET mt == h.got[1] \div 32
              a == ReadArg(h.r, h.got[1] % 32)
          IN IF a.tag = "Err" THEN a
             ELSE CASE mt = 6 -> ParseValue(a.r, expect)
                    [] mt = 0 -> IF expect = "uint" THEN DeOk(a.val, a.r)
                                 ELSE DeErr("InvalidType", a.r)
                    [] mt = 3 ->
                         LET s == ReadExact(a.r, a.val)
                         IN IF ~s.ok THEN DeErr(ErrEof, s.r)
                            ELSE IF ~Utf8Valid(s.got) THEN DeErr("Utf8", s.r)
                            ELSE IF expect = "str" THEN DeOk(s.got, s.r)
                            ELSE DeErr("InvalidType", s.r)
                    [] mt = 5 -> IF expect = "map"
                                 THEN ParseEntries(a.r, a.val, {})
                                 ELSE DeErr("InvalidType", a.r)
                    [] OTHER -> DeErr("InvalidType", a.r)

\* MapAccess of a map with n entries left: key, value, insert
ParseEntries(r, n, m) ==
  IF n = 0 THEN DeOk(m, r)
  ELSE LET k == ParseValue(r, "str")
       IN IF k.tag = "Err" THEN k
          ELSE LET v == ParseValue(k.r, "uint")
               IN IF v.tag = "Err" THEN v
                  ELSE ParseEntries(v.r, n - 1, Put(m, k.val, v.val))

\* Item::deserialize(&mut Deserializer::new(Counted { r: &mut slice,
\* pos: &mut pos })): the result and the count pos ends with
Deserialize(src) == ParseValue([slice |-> src, pos |-> 0], "map")

\* ----------------------------------------------------------------- state
VARIABLES
  sd,      \* Encoder.sd: the self-describe mode
  packed,  \* Encoder.packed
  dst,     \* the BytesMut encode appends to
  src,     \* the BytesMut decode reads from
  junk,    \* bytes put into src that no encode call produced
  op,      \* the call made last
  res,     \* what that call returned
  before,  \* the buffer of that call (dst or src) as it was when called
  cfg,     \* the mode the last construction / sd() call configured
  called,  \* encode was called since then
  passed,  \* an encode call since then returned Ok
  waiting  \* length of src at the last decode call if that call returned
           \* Incomplete, else -1

\* a Codec given the same calls as the Encoder and the Decoder above
VARIABLES
  codec,   \* Codec { dec, enc }
  cdst,    \* the BytesMut Codec::encode appends to
  csrc,    \* the BytesMut Codec::decode reads from
  cres     \* what the last call on the Codec returned

\* what happened so far
VARIABLES
  built,   \* a builder method (sd or packed) was called
  dead,    \* "no" while no decode call has returned Malformed, "yes" once
           \* one has, "fed" once src was extended after that
  run      \* the decode calls made in a row: the buffer the first of
           \* them was given and the items they returned, in order

\* a counting reader run on its own
VARIABLES
  rd       \* Counted { r, pos } with the record of its read calls: all the
           \* bytes of the source, out the bytes passed on, sum the sizes
           \* returned, ret the last result, was the count before that call,
           \* fault the error the source raised in it, failed whether a
           \* call has failed

streams ==
  <<sd, packed, dst, src, junk, op, res, before, cfg, called, passed, waiting,
    codec, cdst, csrc, cres, built, dead, run>>

vars == <<streams, rd>>

\* res: kind is the outcome, item the decoded item, arg the item encoded,
\* err the deserialization error, pos the count of the counting reader, and
\* mode, inc, called, passed the values of sd, waiting, called, passed when
\* the call was made
NoRes ==
  [kind |-> "None", item |-> {}, arg |-> << >>, err |-> "None", pos |-> 0,
   mode |-> "None", inc |-> -1, called |-> FALSE, passed |-> FALSE]

\* no decode call was the last call
NoRun == [on |-> FALSE, start |-> << >>, outs |-> << >>]

\* Decoder::new(): the decoder has no field but the type marker
DecoderNew == [_data |-> "PhantomData"]

\* faulty variant: a new encoder marks every frame
EncoderNewAlways == [_data |-> "PhantomData", sd |-> "Always", packed |-> FALSE]

\* Encoder::new()
EncoderNew == [_data |-> "PhantomData", sd |-> "Never", packed |-> FALSE]

\* Codec::new()
CodecNew == [dec |-> DecoderNew, enc |-> EncoderNew]

\* Counted { r: &mut slice, pos: &mut pos } with pos = 0
CountedNew(slice) ==
  [r |-> slice, pos |-> 0, all |-> slice, out |-> << >>, sum |-> 0,
   ret |-> [tag |-> "None", size |-> 0, err |-> "None"], was |-> 0,
   fault |-> "None", failed |-> FALSE]

\* Encoder::new(), Decoder::new(), Codec::new(), empty buffers
Init ==
  /\ rd = CountedNew(<< >>)
  /\ sd = EncoderNew.sd
  /\ packed = EncoderNew.packed
  /\ codec = CodecNew
  /\ cdst = << >>
  /\ csrc = << >>
  /\ cres = [kind |-> "None", item |-> {}]
  /\ dst = << >>
  /\ src = << >>
  /\ junk = 0
  /\ op = "new"
  /\ res = NoRes
  /\ before = << >>
  /\ cfg = "Never"
  /\ called = FALSE
  /\ passed = FALSE
  /\ waiting = -1
  /\ built = FALSE
  /\ dead = "no"
  /\ run = NoRun

\* the builder methods take the encoder by value: they are called on the
\* way from new() to the first encode or decode call
Building == op \in {"new", "sd", "packed"}

\* Encoder::sd(self, sd)
SetSd(m) ==
  /\ Building
  /\ sd' = m
  /\ cfg' = m
  /\ called' = FALSE
  /\ passed' = FALSE
  /\ op' = "sd"
  /\ res' = NoRes
  /\ before' = << >>
  /\ UNCHANGED <<packed, dst, src, junk, waiting>>

\* Encoder::packed(self, packed)
SetPacked(p) ==
  /\ Building
  /\ packed' = p
  /\ op' = "packed"
  /\ res' = NoRes
  /\ before' = << >>
  /\ UNCHANGED <<sd, dst, src, junk, cfg, called, passed, waiting>>

\* faulty variant: the marker is written after the item
EncodeOutMarkerLast(item, mode, p, buf) ==
  LET s == Serialize(item, SerializerNew(p))
      b1 == BytesWriterWrite(buf, s.bytes)
  IN [ok |-> s.ok,
      buf |-> IF mode # "Never" THEN BytesWriterWrite(b1, SelfDescribe) ELSE b1,
      sd |-> IF mode = "Once" THEN "Never" ELSE mode]

\* faulty variant: Once is never degraded
EncodeOutOnceStays(item, mode, p, buf) ==
  LET s == Serialize(item, SerializerNew(p))
      b1 == IF mode # "Never" THEN BytesWriterWrite(buf, SelfDescribe) ELSE buf
  IN [ok |-> s.ok, buf |-> BytesWriterWrite(b1, s.bytes), sd |-> mode]

\* faulty variant: Once is degraded only after the item was serialized
EncodeOutOnceOnOk(item, mode, p, buf) ==
  LET s == Serialize(item, SerializerNew(p))
      b1 == IF mode # "Never" THEN BytesWriterWrite(buf, SelfDescribe) ELSE buf
  IN [ok |-> s.ok,
      buf |-> BytesWriterWrite(b1, s.bytes),
      sd |-> IF mode = "Once" /\ s.ok THEN "Never" ELSE mode]

\* Encoder::encode as a function of the item, the mode, the packed flag and
\* the buffer: the result, the buffer and the mode afterwards
\* faulty variant: only mode Once writes the marker
EncodeOutOnlyOnce(item, mode, p, buf) ==
  LET serializer == SerializerNew(p)
      b1 == IF mode = "Once" THEN BytesWriterWrite(buf, SelfDescribe) ELSE buf
      s == Serialize(item, serializer)
  IN [ok |-> s.ok,
      buf |-> BytesWriterWrite(b1, s.bytes),
      sd |-> IF mode = "Once" THEN "Never" ELSE mode]

EncodeOut(item, mode, p, buf) ==
  LET serializer == SerializerNew(p)
      b1 == IF mode # "Never" THEN BytesWriterWrite(buf, SelfDescribe) ELSE buf
      s == Serialize(item, serializer)
  IN [ok |-> s.ok,
      buf |-> BytesWriterWrite(b1, s.bytes),
      sd |-> IF mode = "Once" THEN "Never" ELSE mode]

\* Encoder::encode(&mut self, item, dst)
Encode(item) ==
  LET e == EncodeOut(item, sd, packed, dst)
  IN /\ Len(e.buf) + Len(src) <= MaxBytes
     /\ dst' = e.buf
     /\ sd' = e.sd
     /\ op' = "encode"
     /\ res' = [NoRes EXCEPT !.kind = IF e.ok THEN "Ok" ELSE "Err",
                             !.arg = item,
                             !.mode = sd,
                             !.called = called,
                             !.passed = passed]
     /\ before' = dst
     /\ called' = TRUE
     /\ passed' = (passed \/ e.ok)
     /\ UNCHANGED <<packed, src, junk, cfg, waiting>>

\* BytesMut::split_to(at): the buffer keeps what follows the first at bytes
SplitTo(buf, at) == SubSeq(buf, at + 1, Len(buf))

\* faulty variant: the arm for UnexpectedEof is missing
ClassifyNoEof(d) == IF d.tag = "Ok" THEN "Complete" ELSE "Malformed"

\* faulty variant: every error is taken for missing input
ClassifyAllEof(d) == IF d.tag = "Ok" THEN "Complete" ELSE "Incomplete"

\* faulty variant: an error ahead of the end of the buffer is taken for
\* missing input
ClassifyAtEnd(d) ==
  IF d.tag = "Ok" THEN "Complete"
  ELSE IF d.err = ErrEof \/ d.r.slice # << >> THEN "Incomplete"
  ELSE "Malformed"

\* the match of Decoder::decode on the deserialization result
Classify(d) ==
  IF d.tag = "Ok" THEN "Complete"
  ELSE IF d.err = ErrEof THEN "Incomplete"
  ELSE "Malformed"

\* faulty variant: split_off in place of split_to: the buffer keeps the frame
RemainingSplitOff(buf, d) ==
  IF Classify(d) = "Complete" THEN SubSeq(buf, 1, d.r.pos) ELSE buf

\* faulty variant: the bytes read are consumed when the input ran out as well
RemainingEofSplit(buf, d) ==
  IF Classify(d) # "Malformed" THEN SplitTo(buf, d.r.pos) ELSE buf

\* faulty variant: the bytes read are consumed when deserialization failed as well
RemainingErrSplit(buf, d) ==
  IF Classify(d) # "Incomplete" THEN SplitTo(buf, d.r.pos) ELSE buf

\* faulty variant: src.clear() in the Ok arm
RemainingClear(buf, d) ==
  IF Classify(d) = "Complete" THEN << >> ELSE buf

\* what the match of Decoder::decode leaves in the buffer: src.split_to(pos)
\* in the Ok arm, nothing touched in the other two
Remaining(buf, d) ==
  IF Classify(d) = "Complete" THEN SplitTo(buf, d.r.pos) ELSE buf

\* faulty variant: the decoder keeps its place after Incomplete and goes on
\* from there at the next call
DecodeResuming ==
  LET seen == IF waiting >= 0 THEN waiting ELSE 0
      d == Deserialize(SubSeq(src, seen + 1, Len(src)))
      kind == Classify(d)
  IN /\ src' = IF kind = "Complete" THEN << >> ELSE src
     /\ op' = "decode"
     /\ res' = [NoRes EXCEPT !.kind = kind,
                             !.item = IF kind = "Complete" THEN d.val ELSE {},
                             !.err = d.err,
                             !.pos = seen + d.r.pos,
                             !.inc = waiting]
     /\ before' = src
     /\ waiting' = IF kind = "Incomplete" THEN Len(src) ELSE -1
     /\ UNCHANGED <<sd, packed, dst, junk, cfg, called, passed>>

\* Decoder::decode(&mut self, src)
Decode ==
  LET d == Deserialize(src)
      kind == Classify(d)
  IN /\ src' = Remaining(src, d)
     /\ op' = "decode"
     /\ res' = [NoRes EXCEPT !.kind = kind,
                             !.item = IF kind = "Complete" THEN d.val ELSE {},
                             !.err = d.err,
                             !.pos = d.r.pos,
                             !.inc = waiting]
     /\ before' = src
     /\ waiting' = IF kind = "Incomplete" THEN Len(src) ELSE -1
     /\ UNCHANGED <<sd, packed, dst, junk, cfg, called, passed>>

\* the transport: the first k bytes written leave dst and arrive in src
Transfer(k) ==
  /\ k <= Len(dst)
  /\ src' = src \o SubSeq(dst, 1, k)
  /\ dst' = SplitTo(dst, k)
  /\ op' = "extend"
  /\ res' = NoRes
  /\ before' = << >>
  /\ UNCHANGED <<sd, packed, junk, cfg, called, passed, waiting>>

\* src.extend(&[b]) with a byte of the caller's own
Junk(b) ==
  /\ junk < MaxJunk
  /\ Len(dst) + Len(src) < MaxBytes
  /\ src' = Append(src, b)
  /\ junk' = junk + 1
  /\ op' = "extend"
  /\ res' = NoRes
  /\ before' = << >>
  /\ UNCHANGED <<sd, packed, dst, cfg, called, passed, waiting>>

\* ----------------------------------------------------------------- codec
\* faulty variant: the encoder is built anew, its packed flag is lost
CodecSdFresh(m) ==
  /\ codec' = [dec |-> codec.dec, enc |-> [EncoderNew EXCEPT !.sd = m]]
  /\ cres' = [kind |-> "None", item |-> {}]
  /\ UNCHANGED <<cdst, csrc>>

\* Codec::sd(self, sd)
CodecSd(m) ==
  /\ codec' = [dec |-> codec.dec, enc |-> [codec.enc EXCEPT !.sd = m]]
  /\ cres' = [kind |-> "None", item |-> {}]
  /\ UNCHANGED <<cdst, csrc>>

\* Codec::packed(self, packed)
CodecPacked(p) ==
  /\ codec' = [dec |-> codec.dec, enc |-> [codec.enc EXCEPT !.packed = p]]
  /\ cres' = [kind |-> "None", item |-> {}]
  /\ UNCHANGED <<cdst, csrc>>

\* <Codec as IoEncoder>::encode: self.enc.encode(item, dst)
CodecEncode(item) ==
  LET e == EncodeOut(item, codec.enc.sd, codec.enc.packed, cdst)
  IN /\ cdst' = e.buf
     /\ codec' = [codec EXCEPT !.enc.sd = e.sd]
     /\ cres' = [kind |-> IF e.ok THEN "Ok" ELSE "Err", item |-> {}]
     /\ UNCHANGED csrc

\* Decoder::decode as a function of the buffer: the outcome, the item and
\* the buffer afterwards
DecodeOut(buf) ==
  LET d == Deserialize(buf)
  IN [kind |-> Classify(d),
      item |-> IF Classify(d) = "Complete" THEN d.val ELSE {},
      buf |-> Remaining(buf, d)]

\* faulty variant: decode builds the Codec anew around its decoder
CodecDecodeFresh ==
  LET o == DecodeOut(csrc)
  IN /\ csrc' = o.buf
     /\ cres' = [kind |-> o.kind, item |-> o.item]
     /\ codec' = [dec |-> codec.dec, enc |-> EncoderNew]
     /\ UNCHANGED cdst

\* <Codec as IoDecoder>::decode: self.dec.decode(src)
CodecDecode ==
  LET o == DecodeOut(csrc)
  IN /\ csrc' = o.buf
     /\ cres' = [kind |-> o.kind, item |-> o.item]
     /\ UNCHANGED <<codec, cdst>>

\* the transport and the caller's bytes, on the Codec's buffers
CodecTransfer(k) ==
  /\ csrc' = csrc \o SubSeq(cdst, 1, k)
  /\ cdst' = SplitTo(cdst, k)
  /\ cres' = [kind |-> "None", item |-> {}]
  /\ UNCHANGED codec

CodecJunk(b) ==
  /\ csrc' = Append(csrc, b)
  /\ cres' = [kind |-> "None", item |-> {}]
  /\ UNCHANGED <<codec, cdst>>

\* every call is made on the Encoder or the Decoder and on the Codec
\* what a builder call, a decode call, bytes added to src and any other
\* step add to the record of what happened
SeenBuild == built' = TRUE /\ UNCHANGED <<dead, run>>

SeenDecode ==
  /\ dead' = IF dead = "no" /\ res'.kind = "Malformed" THEN "yes" ELSE dead
  /\ run' = [on |-> TRUE,
             start |-> IF run.on THEN run.start ELSE src,
             outs |-> IF res'.kind = "Complete"
                      THEN Append(run.outs, res'.item) ELSE run.outs]
  /\ UNCHANGED built

SeenExtend ==
  /\ dead' = IF dead = "yes" THEN "fed" ELSE dead
  /\ run' = NoRun
  /\ UNCHANGED built

SeenOther == run' = NoRun /\ UNCHANGED <<built, dead>>

Next ==
  \/ \E m \in SdModes : SetSd(m) /\ CodecSd(m) /\ SeenBuild /\ UNCHANGED rd
  \/ \E p \in BOOLEAN : SetPacked(p) /\ CodecPacked(p) /\ SeenBuild /\ UNCHANGED rd
  \/ \E item \in EncItems : Encode(item) /\ CodecEncode(item) /\ SeenOther /\ UNCHANGED rd
  \/ Decode /\ CodecDecode /\ SeenDecode /\ UNCHANGED rd
  \/ \E k \in 1..MaxBytes : Transfer(k) /\ CodecTransfer(k) /\ SeenExtend /\ UNCHANGED rd
  \/ \E b \in Bytes : Junk(b) /\ CodecJunk(b) /\ SeenExtend /\ UNCHANGED rd

Spec == Init /\ [][Next]_vars

\* -------------------------------------------- the counting reader alone
\* sources the reader is run over
Slices == UNION { [1..n -> Bytes] : n \in 0..MaxSlice }

\* io::ErrorKind of the errors a source raises
Errors == {"Interrupted", "Other"}

InitReader ==
  /\ rd \in { CountedNew(s) : s \in Slices }
  /\ sd = EncoderNew.sd
  /\ packed = EncoderNew.packed
  /\ codec = CodecNew
  /\ cdst = << >>
  /\ csrc = << >>
  /\ cres = [kind |-> "None", item |-> {}]
  /\ dst = << >>
  /\ src = << >>
  /\ junk = 0
  /\ op = "new"
  /\ res = NoRes
  /\ before = << >>
  /\ cfg = "Never"
  /\ called = FALSE
  /\ passed = FALSE
  /\ waiting = -1
  /\ built = FALSE
  /\ dead = "no"
  /\ run = NoRun

\* Counted::read(buf) with a buf of n bytes, the source returning Ok(size)
ReaderRead(n) ==
  LET a == CountedRead([slice |-> rd.r, pos |-> rd.pos], n)
  IN /\ rd' = [rd EXCEPT !.r = a.r.slice,
                         !.pos = a.r.pos,
                         !.out = @ \o a.got,
                         !.sum = @ + Len(a.got),
                         !.ret = [tag |-> "Ok", size |-> Len(a.got),
                                  err |-> "None"],
                         !.was = rd.pos,
                         !.fault = "None"]
     /\ UNCHANGED streams

\* Counted::read(buf) with a buf of n bytes, the source returning Err(e)
ReaderFail(n, e) ==
  LET a == CountedReadErr([slice |-> rd.r, pos |-> rd.pos], n, e)
  IN /\ rd' = [rd EXCEPT !.r = a.r.slice,
                         !.pos = a.r.pos,
                         !.ret = [tag |-> a.tag, size |-> 0, err |-> a.err],
                         !.was = rd.pos,
                         !.fault = e,
                         !.failed = TRUE]
     /\ UNCHANGED streams

NextReader ==
  \/ \E n \in 0..MaxAsk : ReaderRead(n)
  \/ \E n \in 1..MaxAsk, e \in Errors : ReaderFail(n, e)

SpecReader == InitReader /\ [][NextReader]_vars

\* ---------------------------------------------------------------- claims
IsPrefix(p, s) == Len(p) <= Len(s) /\ SubSeq(s, 1, Len(p)) = p

Drop(s, n) == SubSeq(s, n + 1, Len(s))

\* the frames encode produces: an item that serializes, under any
\* configuration, with the bytes one encode call appends for it
Frames ==
  { [item |-> t[1], bytes |-> EncodeOut(t[1], t[2], t[3], << >>).buf] :
      t \in { u \in EncItems \X SdModes \X BOOLEAN :
                 EncodeOut(u[1], u[2], u[3], << >>).ok } }

\* C1 (exact consumption): a decode call on a buffer that starts with a
\* frame e of item x returns Complete(x), the counting reader has counted
\* exactly Len(e) bytes, and the buffer is left holding exactly the bytes
\* that followed e.
ExactConsumption ==
  op = "decode" =>
    \A f \in Frames :
      IsPrefix(f.bytes, before) =>
        /\ res.kind = "Complete"
        /\ res.item = ToMap(f.item)
        /\ res.pos = Len(f.bytes)
        /\ src = Drop(before, Len(f.bytes))

\* a frame with the marker was decoded with bytes left over
ExactConsumptionHit ==
  /\ op = "decode"
  /\ res.kind = "Complete"
  /\ src # << >>
  /\ \E f \in Frames :
       /\ IsPrefix(SelfDescribe, f.bytes)
       /\ IsPrefix(f.bytes, before)
       /\ src = Drop(before, Len(f.bytes))

\* C2 (round trip): a decode call on exactly the bytes one encode call
\* appended for item x, under any mode and packed flag, returns Complete(x)
\* and empties the buffer; a buffer that starts with the self-describe
\* marker followed by the unmarked frame of x decodes to x as well, the
\* marker being consumed with the item.
RoundTrip ==
  op = "decode" =>
    \A x \in EncItems, p \in BOOLEAN :
      LET plain == EncodeOut(x, "Never", p, << >>)
      IN plain.ok =>
           /\ \A m \in SdModes :
                before = EncodeOut(x, m, p, << >>).buf =>
                  /\ res.kind = "Complete"
                  /\ res.item = ToMap(x)
                  /\ src = << >>
           /\ IsPrefix(SelfDescribe \o plain.buf, before) =>
                /\ res.kind = "Complete"
                /\ res.item = ToMap(x)
                /\ Len(before) - Len(src) = Len(SelfDescribe) + Len(plain.buf)

\* a marked frame of a non-empty item, alone in the buffer, was decoded
RoundTripHit ==
  /\ op = "decode"
  /\ \E x \in EncItems :
       /\ x # << >>
       /\ EncodeOut(x, "Once", TRUE, << >>).ok
       /\ before = EncodeOut(x, "Once", TRUE, << >>).buf
       /\ res.item = ToMap(x)
  /\ src = << >>

\* C3 (idempotence of Incomplete): a decode call that returns Incomplete
\* leaves the buffer byte for byte as it was, and a decode call that follows
\* a decode call that returned Incomplete, no byte appended in between,
\* returns Incomplete again and leaves the buffer as it was.
IncompleteIdempotent ==
  [][/\ (op' = "decode" /\ res'.kind = "Incomplete") =>
          (src' = src /\ before' = src)
     /\ (op = "decode" /\ res.kind = "Incomplete" /\ op' = "decode") =>
          (res'.kind = "Incomplete" /\ src' = src /\ before' = before)]_vars

\* decode was called twice in a row on a buffer holding part of a frame, and
\* returned Incomplete both times
IncompleteIdempotentHit ==
  /\ op = "decode"
  /\ res.kind = "Incomplete"
  /\ res.inc = Len(src)
  /\ Len(src) >= 2
  /\ src = before

\* C4 (Malformed leaves the buffer intact): after a decode call that
\* returns Malformed the buffer is byte for byte what it was before the call,
\* whatever the counting reader had counted.
MalformedIntact ==
  (op = "decode" /\ res.kind = "Malformed") => src = before

\* decode returned Malformed after the reader had passed several bytes
MalformedIntactHit ==
  /\ op = "decode"
  /\ res.kind = "Malformed"
  /\ res.pos >= 2
  /\ src = before

\* C5 (streaming equivalence): for a frame e of item x and an offset k with
\* 0 <= k < Len(e), a decode call on the first k bytes of e alone returns
\* Incomplete and leaves them in the buffer; when the next decode call finds
\* the rest of e appended, it returns Complete(x) and leaves what follows e.
StreamingEquivalence ==
  op = "decode" =>
    \A f \in Frames :
      /\ (IsPrefix(before, f.bytes) /\ before # f.bytes) =>
           (res.kind = "Incomplete" /\ src = before)
      /\ (res.inc >= 0 /\ res.inc < Len(f.bytes) /\ IsPrefix(f.bytes, before)) =>
           /\ res.kind = "Complete"
           /\ res.item = ToMap(f.item)
           /\ src = Drop(before, Len(f.bytes))

\* a frame was delivered in two parts, cut inside the marker, with a decode
\* call on the first part, and the second decode call returned the item
StreamingEquivalenceHit ==
  /\ op = "decode"
  /\ res.kind = "Complete"
  /\ res.inc = 2
  /\ \E f \in Frames :
       /\ IsPrefix(SelfDescribe, f.bytes)
       /\ f.item # << >>
       /\ before = f.bytes
       /\ res.item = ToMap(f.item)

\* the bytes the last encode call appended, and whether they start with
\* the self-describe marker (no item starts with its first byte)
Appended == Drop(dst, Len(before))

MarkerWritten == IsPrefix(SelfDescribe, Appended)

\* C6 as stated (Once-mode transition): an encoder configured Once writes
\* the marker on exactly the first encode call that succeeds.
OnceFirstSuccessful ==
  (op = "encode" /\ cfg = "Once") =>
    (MarkerWritten <=> (res.kind = "Ok" /\ ~res.passed))

\* C6 as amended: an encoder configured Once writes the marker on exactly
\* the first encode call made on it, whether that call succeeds or fails,
\* and on no later call; a later call appends the bytes of its item alone,
\* three bytes fewer than the first call appends for the same item.
OnceFirstCall ==
  (op = "encode" /\ cfg = "Once") =>
    /\ MarkerWritten <=> ~res.called
    /\ Len(Appended) = Len(Serialize(res.arg, SerializerNew(packed)).bytes)
                       + (IF res.called THEN 0 ELSE Len(SelfDescribe))

\* the first encode call that succeeded came after one that failed, and
\* wrote no marker
OnceFirstCallHit ==
  /\ op = "encode"
  /\ cfg = "Once"
  /\ res.called
  /\ ~res.passed
  /\ res.kind = "Ok"
  /\ ~MarkerWritten

\* C7 (mode state machine): an encode call made in mode Once leaves the
\* mode Never, whether it returns Ok or Err; no encode, decode or transport
\* step changes Always or Never, so Never is never left by such a step.
ModeStateMachine ==
  [][/\ (op' = "encode" /\ sd = "Once") => sd' = "Never"
     /\ (op' \in {"encode", "decode", "extend"} /\ sd \in {"Always", "Never"})
          => sd' = sd]_vars

\* an encode call in mode Once failed and left the mode Never
ModeStateMachineHit ==
  /\ op = "encode"
  /\ res.mode = "Once"
  /\ res.kind = "Err"
  /\ sd = "Never"

\* C8 (three-way classification): decode returns Incomplete exactly when
\* deserialization failed with the I/O error UnexpectedEof, Malformed
\* exactly when it failed with any other error, which it hands on, and
\* Complete exactly when it succeeded.
ThreeWay ==
  op = "decode" =>
    /\ res.kind \in {"Complete", "Incomplete", "Malformed"}
    /\ res.kind = "Incomplete" <=> res.err = ErrEof
    /\ res.kind = "Malformed" <=> res.err \notin {"None", ErrEof}
    /\ res.kind = "Complete" <=> res.err = "None"
    /\ res.err = Deserialize(before).err

\* a key that is no UTF-8 was reported as Malformed
ThreeWayHit ==
  /\ op = "decode"
  /\ res.kind = "Malformed"
  /\ res.err = "Utf8"

\* C9 (empty buffer): a decode call on an empty buffer returns Incomplete,
\* the reader having counted nothing, and leaves the buffer empty.
EmptyIncomplete ==
  (op = "decode" /\ before = << >>) =>
    (res.kind = "Incomplete" /\ res.pos = 0 /\ src = << >>)

\* decode was called on a buffer that earlier decode calls had drained of
\* the frames encoded
EmptyIncompleteHit ==
  /\ op = "decode"
  /\ before = << >>
  /\ res.kind = "Incomplete"
  /\ passed
  /\ dst = << >>
  /\ junk = 0

\* C10 (encode only appends): after an encode call, Ok or Err, the buffer
\* starts with what it held before and is no shorter; what the call wrote,
\* the marker if the mode at the call was not Never and then the bytes the
\* item's serialization got to, is all there when the call fails.
EncodeAppends ==
  op = "encode" =>
    /\ IsPrefix(before, dst)
    /\ Len(dst) >= Len(before)
    /\ Appended = (IF res.mode # "Never" THEN SelfDescribe ELSE << >>)
                  \o Serialize(res.arg, SerializerNew(packed)).bytes
    /\ res.kind = "Err" => Appended # << >>

\* an encode call failed on a buffer that held bytes, and left bytes of
\* its item behind them
EncodeAppendsHit ==
  /\ op = "encode"
  /\ res.kind = "Err"
  /\ before # << >>
  /\ Len(dst) > Len(before)

\* C11 (Codec delegation): given the same calls, a Codec returns what the
\* standalone Decoder and Encoder return, leaves the same bytes in its
\* buffers and keeps the same mode and packed flag in its encoder half; its
\* decoder half is never changed.
CodecDelegates ==
  /\ codec.enc.sd = sd
  /\ codec.enc.packed = packed
  /\ codec.dec = DecoderNew
  /\ cdst = dst
  /\ csrc = src
  /\ op \in {"encode", "decode"} => cres.kind = res.kind
  /\ op = "decode" => cres.item = res.item

\* a Codec configured Once and packed has encoded, and then decoded with
\* bytes left in its buffer
CodecDelegatesHit ==
  /\ op = "decode"
  /\ cres.kind = "Complete"
  /\ cres.item # {}
  /\ codec.enc.packed
  /\ codec.enc.sd = "Never"
  /\ cfg = "Once"
  /\ csrc # << >>

\* C12 (decoder statelessness): what a decode call returns and what it
\* leaves in the buffer are a function of the bytes the buffer held when
\* the call was made, whatever calls came before it.
DecodeStateless ==
  op = "decode" =>
    LET o == DecodeOut(before)
    IN /\ res.kind = o.kind
       /\ res.item = o.item
       /\ src = o.buf
       /\ cres.kind = o.kind
       /\ cres.item = o.item

\* a decode call returned an item after an earlier call on part of the same
\* bytes had returned Incomplete and the caller had added a byte of its own
DecodeStatelessHit ==
  /\ op = "decode"
  /\ res.kind = "Complete"
  /\ res.inc >= 1
  /\ junk > 0
  /\ called

\* C13 (default configuration): an Encoder or Codec on which no builder
\* method was called is in mode Never with packed = false, so no encode call
\* on it writes the self-describe marker and every frame holds its field
\* names as text.
DefaultConfiguration ==
  ~built =>
    /\ sd = "Never"
    /\ packed = FALSE
    /\ codec.enc.sd = "Never"
    /\ codec.enc.packed = FALSE
    /\ op = "encode" =>
         /\ ~MarkerWritten
         /\ Appended = Serialize(res.arg, SerializerNew(FALSE)).bytes
         /\ cdst = dst
         /\ res.arg # << >> =>
              IsPrefix(SerializeStr(res.arg[1][1]), Drop(Appended, 1))

\* the second encode call on an encoder that was never configured wrote a
\* frame of an item with a field
DefaultConfigurationHit ==
  /\ ~built
  /\ op = "encode"
  /\ res.called
  /\ res.kind = "Ok"
  /\ res.arg # << >>
  /\ before # << >>

\* C14 (marker emission rule): an encode call writes the self-describe
\* marker, ahead of every byte of the item, exactly when the mode was Always
\* or Once as the call began; an encoder configured Always marks every frame
\* and one configured Never marks none.
MarkerEmission ==
  op = "encode" =>
    LET s == Serialize(res.arg, SerializerNew(packed)).bytes
    IN /\ MarkerWritten <=> res.mode \in {"Always", "Once"}
       /\ Appended = (IF res.mode \in {"Always", "Once"}
                      THEN SelfDescribe ELSE << >>) \o s
       /\ cfg = "Always" => MarkerWritten /\ res.mode = "Always"
       /\ cfg = "Never" => ~MarkerWritten /\ res.mode = "Never"

\* an encoder configured Always marked a frame of an item with a field on
\* a call that was not its first
MarkerEmissionHit ==
  /\ op = "encode"
  /\ cfg = "Always"
  /\ res.called
  /\ res.kind = "Ok"
  /\ res.arg # << >>
  /\ MarkerWritten
  /\ Len(Appended) > Len(SelfDescribe) + 1

ConfigurationFrame ==
  [][/\ op' = "decode" =>
          /\ sd' = sd
          /\ packed' = packed
          /\ codec' = codec
     /\ op' = "encode" =>
          /\ packed' = packed
          /\ codec'.enc.packed = codec.enc.packed
          /\ codec'.dec = codec.dec
          /\ sd' = sd \/ (sd = "Once" /\ sd' = "Never")
          /\ \/ codec'.enc.sd = codec.enc.sd
             \/ (codec.enc.sd = "Once" /\ codec'.enc.sd = "Never")]_vars

\* a decode call returned an item while encoder and Codec were configured
\* Always and packed
ConfigurationFrameHit ==
  /\ op = "decode"
  /\ res.kind = "Complete"
  /\ sd = "Always"
  /\ packed
  /\ codec.enc.sd = "Always"
  /\ codec.enc.packed

\* a buffer cut into the frames it starts with: their items and lengths in
\* the order of their bytes, and the bytes after the last of them
RECURSIVE SplitFrames(_)
SplitFrames(buf) ==
  LET fs == { f \in Frames : IsPrefix(f.bytes, buf) }
  IN IF fs = {} THEN [items |-> << >>, used |-> << >>, rest |-> buf]
     ELSE LET f == CHOOSE g \in fs : TRUE
              r == SplitFrames(Drop(buf, Len(f.bytes)))
          IN [items |-> <<ToMap(f.item)>> \o r.items,
              used |-> <<Len(f.bytes)>> \o r.used,
              rest |-> r.rest]

RECURSIVE SumTo(_, _)
SumTo(ns, k) == IF k = 0 THEN 0 ELSE ns[k] + SumTo(ns, k - 1)

\* a proper prefix of a frame
IsPartial(bs) == \E f \in Frames : IsPrefix(bs, f.bytes) /\ bs # f.bytes

\* C17 (multi-frame draining in order): on a buffer of n frames followed by
\* a proper prefix of another frame, decode calls made in a row return the
\* items of the frames in the order of their bytes, each call leaving what
\* follows its frame; no call returns Incomplete before the n-th item is
\* out, the call after it does and leaves exactly the partial prefix; and
\* when the rest of that frame has arrived, the next decode call returns
\* its item and leaves the buffer empty.
DrainInOrder ==
  /\ run.on =>
       LET sp == SplitFrames(run.start)
           n == Len(sp.items)
           k == Len(run.outs)
       IN IsPartial(sp.rest) =>
            /\ k <= n
            /\ run.outs = SubSeq(sp.items, 1, k)
            /\ src = Drop(run.start, SumTo(sp.used, k))
            /\ \/ res.kind = "Complete"
               \/ /\ res.kind = "Incomplete"
                  /\ k = n
                  /\ src = sp.rest
  /\ (op = "decode" /\ res.inc >= 0 /\ res.inc < Len(before)) =>
       \A f \in Frames :
         before = f.bytes =>
           /\ res.kind = "Complete"
           /\ res.item = ToMap(f.item)
           /\ src = << >>

\* two frames and the first byte of a third were in the buffer: two decode
\* calls returned the two items, the third call returned Incomplete and left
\* the one byte
DrainInOrderHit ==
  /\ run.on
  /\ Len(run.outs) = 2
  /\ Len(run.start) >= 3
  /\ SplitFrames(run.start).items = run.outs
  /\ res.kind = "Incomplete"
  /\ Len(src) = 1
  /\ IsPartial(src)

\* C18 (the drain loop terminates): a decode call that returns Complete
\* leaves the buffer at least one byte shorter, so decode calls made in a
\* row return at most as many items as the buffer had bytes to lose, and a
\* call on the emptied buffer returns no item.
DrainTerminates ==
  /\ (op = "decode" /\ res.kind = "Complete") => Len(src) < Len(before)
  /\ (op = "decode" /\ res.kind # "Complete") => src = before
  /\ (op = "decode" /\ before = << >>) => res.kind = "Incomplete"
  /\ run.on =>
       /\ Len(src) <= Len(run.start)
       /\ Len(run.outs) <= Len(run.start) - Len(src)

\* a buffer of three bytes gave three items in three calls, and the fourth
\* call returned Incomplete
DrainTerminatesHit ==
  /\ run.on
  /\ Len(run.start) = 3
  /\ Len(run.outs) = 3
  /\ src = << >>
  /\ res.kind = "Incomplete"

\* C19 (consumed length in bounds): in every decode call the count of the
\* counting reader ends between 0 and the length the buffer had when the
\* call was made, and on Complete it is the number of bytes split_to
\* removes.
ConsumedInBounds ==
  op = "decode" =>
    /\ 0 <= res.pos
    /\ res.pos <= Len(before)
    /\ res.kind = "Complete" => res.pos = Len(before) - Len(src)
    /\ res.pos = Deserialize(before).r.pos

\* the reader was asked for more than the buffer had left and the call
\* returned Incomplete with every byte counted
ConsumedInBoundsHit ==
  /\ op = "decode"
  /\ res.kind = "Incomplete"
  /\ Len(before) >= 3
  /\ res.pos = Len(before)
  /\ before[Len(before)] = 24

\* C20 (bookkeeping of the counting reader): after any sequence of read
\* calls the counter is the sum of the sizes the successful reads returned;
\* a read at the end of the input returns zero bytes and leaves the counter
\* as it was; a read that fails returns the error of the source as it is and
\* leaves the counter as it was; the bytes passed on are the bytes of the
\* source, in order.
ReaderBookkeeping ==
  /\ rd.pos = rd.sum
  /\ rd.out = SubSeq(rd.all, 1, rd.pos)
  /\ rd.r = Drop(rd.all, rd.pos)
  /\ rd.ret.tag = "Ok" => rd.pos = rd.was + rd.ret.size
  /\ (rd.ret.tag = "Ok" /\ rd.was = Len(rd.all)) =>
       (rd.ret.size = 0 /\ rd.pos = rd.was)
  /\ rd.ret.tag = "Err" => (rd.ret.err = rd.fault /\ rd.pos = rd.was)

\* a source of three bytes was read to its end in more than one call, one
\* call in between failed, and a read at the end returned zero bytes
ReaderBookkeepingHit ==
  /\ Len(rd.all) = 3
  /\ rd.all[1] # rd.all[2]
  /\ rd.failed
  /\ rd.ret.tag = "Ok"
  /\ rd.ret.size = 0
  /\ rd.was = 3
  /\ rd.pos = 3

====
